---------------------------- MODULE Spec2Model ----------------------------
(***************************************************************************)
(* Model of the workbook preparation scripts of ironcalc-sheets-poc:       *)
(*   scripts/remove_array_flags.py    array-formula normalizer             *)
(*   scripts/detect_array_formulas.py array-formula discovery scan         *)
(*   scripts/explore_xlsx.py          reference parser / shape classifier  *)
(*                                                                         *)
(* Python strings whose characters matter are sequences of one-character   *)
(* strings; sheet names and cell addresses, used only as keys, are plain   *)
(* strings.                                                                *)
(***************************************************************************)
EXTENDS Integers, Sequences, FiniteSets, TLC

VARIABLES
    pc,             \* position of the running script
    grid,           \* workbook cell grid: sheet name -> address -> cell
    defined_names,  \* workbook defined-name table: identifier -> reference
    \* ---- remove_array_flags.py
    array_cells,    \* the (sheet, address) list the pass walks
    idx,            \* position of the for loop in array_cells (1-based)
    fixed_count,
    fixed_cells,    \* "converted": coordinates of the rewritten cells
    skipped,        \* one record per "Already regular" / "Checking" line
    pass,           \* 1 = first run of the script, 2 = re-run on its output
    grid0,          \* the grid as loaded at the start of the current pass
    names0,         \* the defined names as loaded
    saved,          \* the output file: NotSaved or the grid written by save
    \* ---- detect_array_formulas.py
    sheet_i,        \* position of the outer loop in wb.sheetnames
    array_formulas, \* reported array-formula cells, (sheet, cell) in order
    total_formulas,
    sheet_lines,    \* the per-sheet report lines printed by the scan
    \* ---- explore_xlsx.py
    ref,            \* the raw reference string handed to parse_range_ref
    ref_lower,      \* the same reference with its column letters lower-cased
    parsed,         \* parse_range_ref(ref)
    parsed_lower,   \* parse_range_ref(ref_lower)
    range_type,     \* get_range_type(parsed)
    reparsed,       \* parse_range_ref of the re-serialised parsed reference
    \* ---- explore_xlsx.py, main
    name_i,         \* position of the current loop in wb.defined_names
    described,      \* section 2: one record per printed name (Type, Classification)
    type_counts,
    classification_counts,
    \* ---- clean_dev_xlsx.py, label_to_name
    cur_label,      \* the label handed to label_to_name
    range_name,     \* its result
    \* ---- clean_dev_xlsx.py, main
    cur_row,        \* position of `for row in range(1, 100)`
    cleared_cells,
    skipped_formulas,
    named_ranges,
    warnings,  \* one entry per "already exists, skipping" warning
    \* ---- one script run after another
    reports    \* what the earlier runs on this workbook printed

nzVars == <<array_cells, idx, fixed_count, fixed_cells, skipped, pass, grid0, names0, saved>>
detVars == <<sheet_i, array_formulas, total_formulas, sheet_lines>>
pxVars == <<ref, ref_lower, parsed, parsed_lower, range_type, reparsed>>
wbVars == <<grid, defined_names>>
exVars == <<name_i, described, type_counts, classification_counts>>
synVars == <<cur_label, range_name>>
scrVars == <<cur_row, cleared_cells, skipped_formulas, named_ranges, warnings>>
vars == <<pc, grid, defined_names, array_cells, idx, fixed_count, fixed_cells, skipped, pass, grid0, names0, saved, sheet_i, array_formulas, total_formulas, sheet_lines, ref, ref_lower, parsed, parsed_lower, range_type, reparsed, name_i, described, type_counts, classification_counts, cur_label, range_name, cur_row, cleared_cells, skipped_formulas, named_ranges, warnings, reports>>

-----------------------------------------------------------------------------
(* Bounds *)

\* longest explicit cell list handed to the normalizer
MaxCells == 2

\* largest row number written in a generated reference string
MaxRow == 2

-----------------------------------------------------------------------------
(* Python string helpers, on sequences of characters *)

UpperLetters == <<"A","B","C","D","E","F","G","H","I","J","K","L","M","N","O","P","Q","R","S","T","U","V","W","X","Y","Z">>
LowerLetters == <<"a","b","c","d","e","f","g","h","i","j","k","l","m","n","o","p","q","r","s","t","u","v","w","x","y","z">>
DigitChars == <<"0","1","2","3","4","5","6","7","8","9">>

Range(f) == {f[i] : i \in DOMAIN f}

IndexIn(seq, c) == CHOOSE i \in DOMAIN seq : seq[i] = c

\* str.startswith
StartsWith(s, p) == Len(s) >= Len(p) /\ SubSeq(s, 1, Len(p)) = p

\* str(n) for a non-negative int
RECURSIVE DecStr(_)
DecStr(n) == IF n < 10 THEN <<DigitChars[n + 1]>>
             ELSE DecStr(n \div 10) \o <<DigitChars[(n % 10) + 1]>>

\* int(s) for a string of decimal digits
RECURSIVE ToInt(_)
ToInt(s) == IF Len(s) = 0 THEN 0
            ELSE 10 * ToInt(SubSeq(s, 1, Len(s) - 1)) + (IndexIn(DigitChars, s[Len(s)]) - 1)

-----------------------------------------------------------------------------
(* The workbook container (openpyxl) as the scripts use it *)

SheetNames == <<"S1", "S2">>
CellAddrs == <<"A1", "A2">>

\* cell.value variants: None, an int, a str, an ArrayFormula object
None == [t |-> "None"]
PyInt(n) == [t |-> "int", n |-> n]
PyString(s) == [t |-> "str", s |-> s]
ArrayFormula(text) == [t |-> "ArrayFormula", text |-> text]

\* isinstance(v, ArrayFormula)
IsArrayFormula(v) == v.t = "ArrayFormula"

\* bool(v): None, 0 and "" are falsy; an ArrayFormula object is truthy
Truthy(v) == CASE v.t = "None" -> FALSE
               [] v.t = "int" -> v.n # 0
               [] v.t = "str" -> Len(v.s) > 0
               [] OTHER -> TRUE

\* str(v)
PyStr(v) == CASE v.t = "None" -> <<"N","o","n","e">>
              [] v.t = "int" -> DecStr(v.n)
              [] v.t = "str" -> v.s
              [] OTHER -> <<"<","o","b","j","e","c","t",">">>

\* the values a loaded cell can hold in the model
FormulaText == <<"B","1">>
CellValues == { None, PyInt(7), PyString(<<"x">>), PyString(<<"=">> \o FormulaText), ArrayFormula(FormulaText) }

\* every cell carries its style; only cell.value is ever assigned
StyleOf(sheet, addr) == IF addr = "A1" THEN "bold" ELSE "general"

Grids == [Range(SheetNames) -> [Range(CellAddrs) -> CellValues]]

LoadWorkbook(g) == [s \in DOMAIN g |-> [a \in DOMAIN g[s] |-> [value |-> g[s][a], style |-> StyleOf(s, a)]]]

NameTable == [Rate |-> "S1!A1"]

NotSaved == [t |-> "NotSaved"]

-----------------------------------------------------------------------------
(* Idle values of the variables a script does not use *)

IdleNormalize == /\ array_cells = <<>> /\ idx = 0 /\ fixed_count = 0
                 /\ fixed_cells = <<>> /\ skipped = <<>> /\ pass = 0
                 /\ saved = NotSaved

IdleDetect == /\ sheet_i = 0 /\ array_formulas = <<>> /\ total_formulas = 0
              /\ sheet_lines = <<>>

IdleParse == /\ ref = <<>> /\ ref_lower = <<>> /\ parsed = None
             /\ parsed_lower = None /\ range_type = "" /\ reparsed = None

NoCounts == [x \in {} |-> 0]

IdleExplore == /\ name_i = 0 /\ described = <<>> /\ type_counts = NoCounts
               /\ classification_counts = NoCounts

IdleSynth == /\ cur_label = None /\ range_name = None

IdleScrub == /\ cur_row = 0 /\ cleared_cells = <<>> /\ skipped_formulas = <<>>
             /\ named_ranges = <<>> /\ warnings = <<>>

\* explore main, label_to_name and the scrubber are not running
IdleOthers == IdleExplore /\ IdleSynth /\ IdleScrub

-----------------------------------------------------------------------------
(* remove_array_flags.py *)

\* the sheet names a cell list can mention: the workbook's and an absent one
ListedSheets == Range(SheetNames) \cup {"Nope"}
Entries == [sheet : ListedSheets, addr : Range(CellAddrs)]
CellLists == UNION { [1..n -> Entries] : n \in 0..MaxCells }

\* f"{sheet_name}!{cell_addr}"
Coordinate(sheet_name, cell_addr) == sheet_name \o "!" \o cell_addr

\* the (sheet, address) pair a coordinate string names
EntryOf(coord) == CHOOSE e \in Entries : Coordinate(e.sheet, e.addr) = coord

\* variant: the formula text stored without the leading "="
StandardFormula_bare(formula_text) == formula_text

\* f"={formula_text}"
StandardFormula(formula_text) == <<"=">> \o formula_text

\* wb[sheet_name] raises KeyError for a sheet the workbook does not have
HasSheet(sheet_name) == sheet_name \in Range(SheetNames)

InitNormalize ==
    /\ pc = "normalize"
    /\ \E g \in Grids : grid = LoadWorkbook(g)
    /\ defined_names = NameTable
    /\ array_cells \in CellLists
    /\ idx = 1
    /\ fixed_count = 0
    /\ fixed_cells = <<>>
    /\ skipped = <<>>
    /\ pass = 1
    /\ grid0 = grid
    /\ names0 = defined_names
    /\ saved = NotSaved
    /\ IdleDetect
    /\ IdleParse
    /\ IdleOthers
    /\ reports = <<>>

\* one iteration of `for sheet_name, cell_addr in array_cells`, after the
\* sheet lookup.  The "Fixed" line goes with the append to fixed_cells; the
\* "Already regular" line is recorded with reason ALREADY_STANDARD and the
\* "Checking ... Value type" line (None, a number, other text) with reason
\* NOT_A_FORMULA.
NormalizeCell(sheet_name, cell_addr) ==
    LET value == grid[sheet_name][cell_addr].value IN
    IF IsArrayFormula(value)
    THEN /\ grid' = [grid EXCEPT ![sheet_name][cell_addr].value = PyString(StandardFormula(value.text))]
         /\ fixed_count' = fixed_count + 1
         /\ fixed_cells' = Append(fixed_cells, Coordinate(sheet_name, cell_addr))
         /\ skipped' = skipped
    ELSE IF Truthy(value) /\ StartsWith(PyStr(value), <<"=">>)
    THEN /\ skipped' = Append(skipped, [coord |-> Coordinate(sheet_name, cell_addr), reason |-> "ALREADY_STANDARD"])
         /\ UNCHANGED <<grid, fixed_count, fixed_cells>>
    ELSE /\ skipped' = Append(skipped, [coord |-> Coordinate(sheet_name, cell_addr), reason |-> "NOT_A_FORMULA"])
         /\ UNCHANGED <<grid, fixed_count, fixed_cells>>

NormalizeStep ==
    /\ pc = "normalize"
    /\ idx <= Len(array_cells)
    /\ HasSheet(array_cells[idx].sheet)
    /\ NormalizeCell(array_cells[idx].sheet, array_cells[idx].addr)
    /\ idx' = idx + 1
    /\ UNCHANGED <<pc, defined_names, array_cells, pass, grid0, names0, saved>>
    /\ UNCHANGED <<detVars, pxVars>>
    /\ UNCHANGED <<exVars, synVars, scrVars>>
    /\ UNCHANGED reports

\* ws = wb[sheet_name] on an absent sheet: the KeyError is not caught, the
\* script dies before wb.save
NormalizeKeyError ==
    /\ pc = "normalize"
    /\ idx <= Len(array_cells)
    /\ ~HasSheet(array_cells[idx].sheet)
    /\ pc' = "aborted"
    /\ UNCHANGED <<wbVars, nzVars, detVars, pxVars>>
    /\ UNCHANGED <<exVars, synVars, scrVars>>
    /\ UNCHANGED reports

\* wb.save(output_file) after the loop
NormalizeSave ==
    /\ pc = "normalize"
    /\ idx > Len(array_cells)
    /\ saved' = grid
    /\ pc' = "done"
    /\ UNCHANGED <<wbVars, array_cells, idx, fixed_count, fixed_cells, skipped, pass, grid0, names0>>
    /\ UNCHANGED <<detVars, pxVars>>
    /\ UNCHANGED <<exVars, synVars, scrVars>>
    /\ UNCHANGED reports

\* the script run again on the file it wrote, with the coordinates of its
\* own `converted` list as the cell list
NormalizeAgain ==
    /\ pc = "done"
    /\ pass = 1
    /\ pass' = 2
    /\ grid' = saved
    /\ grid0' = saved
    /\ array_cells' = [i \in 1..Len(fixed_cells) |-> EntryOf(fixed_cells[i])]
    /\ idx' = 1
    /\ fixed_count' = 0
    /\ fixed_cells' = <<>>
    /\ skipped' = <<>>
    /\ saved' = NotSaved
    /\ pc' = "normalize"
    /\ UNCHANGED <<defined_names, names0>>
    /\ UNCHANGED <<detVars, pxVars>>
    /\ UNCHANGED <<exVars, synVars, scrVars>>
    /\ UNCHANGED reports

NextNormalize == NormalizeStep \/ NormalizeKeyError \/ NormalizeSave \/ NormalizeAgain

SpecNormalize == InitNormalize /\ [][NextNormalize]_vars

-----------------------------------------------------------------------------
(* detect_array_formulas.py *)

\* variant: every non-empty cell that is not an array formula is counted
ScanCell_anyvalue(acc, coordinate, value) ==
    IF Truthy(value)
    THEN IF IsArrayFormula(value)
         THEN [acc EXCEPT !.sheet_arrays = Append(@, [cell |-> coordinate, formula |-> value.text])]
         ELSE [acc EXCEPT !.sheet_formulas = @ + 1]
    ELSE acc

\* the body of `for cell in row`: acc holds sheet_arrays and sheet_formulas
ScanCell(acc, coordinate, value) ==
    IF Truthy(value)
    THEN IF IsArrayFormula(value)
         THEN [acc EXCEPT !.sheet_arrays = Append(@, [cell |-> coordinate, formula |-> value.text])]
         ELSE IF StartsWith(PyStr(value), <<"=">>)
              THEN [acc EXCEPT !.sheet_formulas = @ + 1]
              ELSE acc
    ELSE acc

\* `for row in ws.iter_rows(): for cell in row:` over the first k cells
RECURSIVE ScanRows(_, _)
ScanRows(ws, k) ==
    IF k = 0 THEN [sheet_arrays |-> <<>>, sheet_formulas |-> 0]
    ELSE ScanCell(ScanRows(ws, k - 1), CellAddrs[k], ws[CellAddrs[k]].value)

InitDetect ==
    /\ pc = "scan"
    /\ \E g \in Grids : grid = LoadWorkbook(g)
    /\ defined_names = NameTable
    /\ grid0 = grid
    /\ names0 = defined_names
    /\ sheet_i = 1
    /\ array_formulas = <<>>
    /\ total_formulas = 0
    /\ sheet_lines = <<>>
    /\ IdleNormalize
    /\ IdleParse
    /\ IdleOthers
    /\ reports = <<>>

\* one iteration of `for sheet_name in wb.sheetnames`
ScanSheet ==
    /\ pc = "scan"
    /\ sheet_i <= Len(SheetNames)
    /\ LET sheet_name == SheetNames[sheet_i]
           scan == ScanRows(grid[sheet_name], Len(CellAddrs))
           sheet_arrays == scan.sheet_arrays
           sheet_formulas == scan.sheet_formulas
       IN /\ total_formulas' = total_formulas + sheet_formulas
          /\ IF Len(sheet_arrays) > 0
             THEN /\ sheet_lines' = Append(sheet_lines, [sheet |-> sheet_name, status |-> "ARRAY FORMULAS FOUND", arrays |-> sheet_arrays])
                  /\ array_formulas' = array_formulas \o [i \in 1..Len(sheet_arrays) |-> <<sheet_name, sheet_arrays[i]>>]
             ELSE /\ sheet_lines' = Append(sheet_lines, [sheet |-> sheet_name, status |-> "OK", regular_formulas |-> sheet_formulas])
                  /\ array_formulas' = array_formulas
    /\ sheet_i' = sheet_i + 1
    /\ UNCHANGED <<pc, wbVars, nzVars, pxVars>>
    /\ UNCHANGED <<exVars, synVars, scrVars>>
    /\ UNCHANGED reports

\* the summary after the loop, then wb.close()
ScanSummary ==
    /\ pc = "scan"
    /\ sheet_i > Len(SheetNames)
    /\ pc' = "done"
    /\ UNCHANGED <<wbVars, nzVars, detVars, pxVars>>
    /\ UNCHANGED <<exVars, synVars, scrVars>>
    /\ UNCHANGED reports

NextDetect == ScanSheet \/ ScanSummary

SpecDetect == InitDetect /\ [][NextDetect]_vars

-----------------------------------------------------------------------------
(* explore_xlsx.py: parse_range_ref and get_range_type *)

IsUpper(c) == c \in Range(UpperLetters)
IsLower(c) == c \in Range(LowerLetters)
IsDigit(c) == c \in Range(DigitChars)

\* str.upper / str.lower on one character
UpperChar(c) == IF IsLower(c) THEN UpperLetters[IndexIn(LowerLetters, c)] ELSE c
LowerChar(c) == IF IsUpper(c) THEN LowerLetters[IndexIn(UpperLetters, c)] ELSE c
Upper(s) == [i \in DOMAIN s |-> UpperChar(s[i])]
Lower(s) == [i \in DOMAIN s |-> LowerChar(s[i])]

\* s.replace(c, "")
Remove(s, c) == SelectSeq(s, LAMBDA ch : ch # c)

\* s.split(sep) for a one-character separator
RECURSIVE Split(_, _)
Split(s, sep) ==
    IF sep \notin Range(s) THEN <<s>>
    ELSE LET i == CHOOSE k \in DOMAIN s : s[k] = sep /\ \A j \in 1..(k - 1) : s[j] # sep
         IN <<SubSeq(s, 1, i - 1)>> \o Split(SubSeq(s, i + 1, Len(s)), sep)

\* s.strip(c)
RECURSIVE Strip(_, _)
Strip(s, c) ==
    IF Len(s) > 0 /\ s[1] = c THEN Strip(Tail(s), c)
    ELSE IF Len(s) > 0 /\ s[Len(s)] = c THEN Strip(SubSeq(s, 1, Len(s) - 1), c)
    ELSE s

\* length of the longest run of characters of the set chars that starts at s[from]
RECURSIVE RunLength(_, _, _)
RunLength(s, from, chars) ==
    IF from <= Len(s) /\ s[from] \in chars THEN 1 + RunLength(s, from + 1, chars) ELSE 0

\* re.match(r"([A-Z]+)(\d+)", s): anchored at the start only, greedy groups
ReMatch(s) ==
    LET letters == RunLength(s, 1, Range(UpperLetters))
        digits == RunLength(s, letters + 1, Range(DigitChars))
    IN IF letters >= 1 /\ digits >= 1
       THEN [t |-> "Match", group1 |-> SubSeq(s, 1, letters), group2 |-> SubSeq(s, letters + 1, letters + digits)]
       ELSE None

\* variant: the row number off by one
RowNumber_next(digits) == ToInt(digits) + 1

\* int(match.group(2))
RowNumber(digits) == ToInt(digits)

\* an exception leaving the function
ValueError == [t |-> "ValueError"]

parse_range_ref(raw) ==
    LET stripped == Remove(raw, "$")
        parts == Split(stripped, "!")
        sheet_ref == IF Len(parts) = 2 THEN PyString(Strip(parts[1], "'")) ELSE None
        cell_range == IF Len(parts) = 2 THEN parts[2] ELSE parts[1]
    IN IF ":" \in Range(cell_range)
       THEN LET halves == Split(cell_range, ":") IN
            IF Len(halves) # 2 THEN ValueError    \* start, end = ... cannot unpack
            ELSE LET start_match == ReMatch(halves[1])
                     end_match == ReMatch(halves[2])
                 IN IF start_match # None /\ end_match # None
                    THEN [t |-> "dict", sheet |-> sheet_ref,
                          start_col |-> start_match.group1, start_row |-> RowNumber(start_match.group2),
                          end_col |-> end_match.group1, end_row |-> RowNumber(end_match.group2),
                          is_range |-> TRUE]
                    ELSE None
       ELSE LET match == ReMatch(cell_range) IN
            IF match # None
            THEN [t |-> "dict", sheet |-> sheet_ref,
                  start_col |-> match.group1, start_row |-> RowNumber(match.group2),
                  end_col |-> match.group1, end_row |-> RowNumber(match.group2),
                  is_range |-> FALSE]
            ELSE None

\* spreadsheet base-26 letter encoding: A=1 .. Z=26, AA=27
RECURSIVE Base26(_)
Base26(col) ==
    IF Len(col) = 0 THEN 0
    ELSE 26 * Base26(SubSeq(col, 1, Len(col) - 1)) + IndexIn(UpperLetters, col[Len(col)])

\* openpyxl's column table holds the names of columns 1..18278 (A..ZZZ)
MaxColumnLetters == 3

\* column_index_from_string(str_col) finds str_col.upper() in the column
\* table; a name that is not in it raises ValueError
ColumnKnown(str_col) ==
    /\ Len(str_col) \in 1..MaxColumnLetters
    /\ \A i \in DOMAIN str_col : IsUpper(UpperChar(str_col[i]))

column_index_from_string(str_col) == Base26(Upper(str_col))

get_range_type(p) ==
    IF p = None \/ ~p.is_range THEN "SINGLE"
    ELSE IF ~ColumnKnown(p.start_col) \/ ~ColumnKnown(p.end_col) THEN "ValueError"
    ELSE LET start_col_num == column_index_from_string(p.start_col)
             end_col_num == column_index_from_string(p.end_col)
             row_count == p.end_row - p.start_row + 1
             col_count == end_col_num - start_col_num + 1
         IN IF row_count = 1 /\ col_count > 1 THEN "HORIZONTAL"
            ELSE IF row_count > 1 /\ col_count = 1 THEN "VERTICAL"
            ELSE IF row_count > 1 /\ col_count > 1 THEN "TABLE"
            ELSE "SINGLE"

\* a parsed reference written back as a reference string: the sheet and "!"
\* when there is a sheet, the start cell, and ":" and the end cell for a range
Serialize(p) ==
    (IF p.sheet = None THEN <<>> ELSE p.sheet.s \o <<"!">>)
    \o p.start_col \o DecStr(p.start_row)
    \o (IF p.is_range THEN <<":">> \o p.end_col \o DecStr(p.end_row) ELSE <<>>)

(* The reference strings handed to the parser *)

ColTexts == { <<>>, <<"A">>, <<"B">>, <<"A","A">>, <<"A","A","A","A">> }
RowTexts == { <<>>, <<"1","0">>, <<"0","1">> } \cup { DecStr(n) : n \in 0..MaxRow }
Prefixes == { <<>>, <<"S","!">>, <<"'","S","'","!">>, <<"!">>, <<"A","1","!","S","!">> }
Trailers == { <<>>, <<"x">>, <<":">>, <<":","A","1">> }

\* one cell address, absolute ("$A$1") or relative ("A1")
CellText(col, row, absolute) ==
    IF absolute THEN <<"$">> \o col \o <<"$">> \o row ELSE col \o row

\* the cell-range part of the reference strings: one or two cell addresses
\* and a trailer
RangeTexts ==
    { CellText(c[1], c[2], c[3]) \o t : c \in ColTexts \X RowTexts \X BOOLEAN, t \in Trailers }
    \cup { CellText(c[1], c[2], c[5]) \o <<":">> \o CellText(c[3], c[4], c[5]) \o t :
               c \in ColTexts \X RowTexts \X ColTexts \X RowTexts \X BOOLEAN, t \in Trailers }

InitParse ==
    /\ pc = "parse"
    /\ \E prefix \in Prefixes, body \in RangeTexts :
          /\ ref = prefix \o body
          /\ ref_lower = prefix \o Lower(body)
    /\ parsed = None
    /\ parsed_lower = None
    /\ range_type = ""
    /\ reparsed = None
    /\ \E g \in {[s \in Range(SheetNames) |-> [a \in Range(CellAddrs) |-> None]]} : grid = LoadWorkbook(g)
    /\ defined_names = NameTable
    /\ grid0 = grid
    /\ names0 = defined_names
    /\ IdleNormalize
    /\ IdleDetect
    /\ IdleOthers
    /\ reports = <<>>

\* parsed = parse_range_ref(defined_name.value)
Parse ==
    /\ pc = "parse"
    /\ parsed' = parse_range_ref(ref)
    /\ pc' = "classify"
    /\ UNCHANGED <<ref, ref_lower, parsed_lower, range_type, reparsed>>
    /\ UNCHANGED <<wbVars, nzVars, detVars>>
    /\ UNCHANGED <<exVars, synVars, scrVars>>
    /\ UNCHANGED reports

\* if parsed: range_type = get_range_type(parsed)
Classify ==
    /\ pc = "classify"
    /\ range_type' = IF parsed.t = "dict" THEN get_range_type(parsed) ELSE range_type
    /\ pc' = "parse_lower"
    /\ UNCHANGED <<ref, ref_lower, parsed, parsed_lower, reparsed>>
    /\ UNCHANGED <<wbVars, nzVars, detVars>>
    /\ UNCHANGED <<exVars, synVars, scrVars>>
    /\ UNCHANGED reports

\* the parser applied to the lower-case spelling of the same reference
ParseLower ==
    /\ pc = "parse_lower"
    /\ parsed_lower' = parse_range_ref(ref_lower)
    /\ pc' = "reparse"
    /\ UNCHANGED <<ref, ref_lower, parsed, range_type, reparsed>>
    /\ UNCHANGED <<wbVars, nzVars, detVars>>
    /\ UNCHANGED <<exVars, synVars, scrVars>>
    /\ UNCHANGED reports

\* the parser applied to the re-serialised result of the first parse
Reparse ==
    /\ pc = "reparse"
    /\ reparsed' = IF parsed.t = "dict" THEN parse_range_ref(Serialize(parsed)) ELSE reparsed
    /\ pc' = "done"
    /\ UNCHANGED <<ref, ref_lower, parsed, parsed_lower, range_type>>
    /\ UNCHANGED <<wbVars, nzVars, detVars>>
    /\ UNCHANGED <<exVars, synVars, scrVars>>
    /\ UNCHANGED reports

NextParse == Parse \/ Classify \/ ParseLower \/ Reparse

SpecParse == InitParse /\ [][NextParse]_vars

-----------------------------------------------------------------------------
(* explore_xlsx.py: main, sections 2 and 5 (the defined names) *)

\* longest defined-name table
MaxNames == 2

\* the title of a sheet as a Python string
SheetTitle(sheet_name) == CASE sheet_name = "S1" -> <<"S","1">>
                            [] sheet_name = "S2" -> <<"S","2">>

\* (row, column) of the cells a loaded sheet holds
RowCol(addr) == CASE addr = "A1" -> <<1, 1>>
                  [] addr = "A2" -> <<2, 1>>
                  [] addr = "B1" -> <<1, 2>>
                  [] addr = "B2" -> <<2, 2>>

\* wb[title] raises KeyError when no sheet has that title (None included)
SheetFound(title) == title # None /\ \E n \in Range(SheetNames) : SheetTitle(n) = title.s
SheetOf(title) == CHOOSE n \in Range(SheetNames) : SheetTitle(n) = title.s

\* ws.cell(row=, column=) raises ValueError below 1; a cell the sheet does
\* not hold yet is created empty
CellValueAt(ws, r, c) ==
    IF \E a \in DOMAIN ws : RowCol(a) = <<r, c>>
    THEN ws[CHOOSE a \in DOMAIN ws : RowCol(a) = <<r, c>>].value
    ELSE None

\* has_formula = str(cell.value).startswith("=") if cell.value else False
HasFormula(value) == Truthy(value) /\ StartsWith(PyStr(value), <<"=">>)

\* variant: the probe reads the end cell of the region
ProbeRole_endcell(g, p) ==
    IF ~SheetFound(p.sheet) THEN "UNKNOWN"
    ELSE IF ~ColumnKnown(p.end_col) THEN "UNKNOWN"
    ELSE IF p.end_row < 1 THEN "UNKNOWN"
    ELSE IF HasFormula(CellValueAt(g[SheetOf(p.sheet)], p.end_row, column_index_from_string(p.end_col)))
         THEN "OUTPUT"
         ELSE "INPUT"

\* the try block of the classification: the probe of the start cell
ProbeRole(g, p) ==
    IF ~SheetFound(p.sheet) THEN "UNKNOWN"                  \* KeyError
    ELSE IF ~ColumnKnown(p.start_col) THEN "UNKNOWN"        \* ValueError
    ELSE IF p.start_row < 1 THEN "UNKNOWN"                  \* ValueError
    ELSE IF HasFormula(CellValueAt(g[SheetOf(p.sheet)], p.start_row, column_index_from_string(p.start_col)))
         THEN "OUTPUT"
         ELSE "INPUT"

\* the reference strings a defined name can hold
NameRefs ==
    { <<"S","1","!","A","1">>,
      <<"S","1","!","$","A","$","2">>,
      <<"S","1","!","A","1",":","A","2">>,
      <<"S","1","!","A","1",":","B","2">>,
      <<"A","1">>,
      <<"N","o","p","e","!","A","1">>,
      <<"S","1","!","A","0">>,
      <<"S","1","!","A","A","A","A","1">>,
      <<"'","S","1","'","!","A","9">>,
      <<"S","1","!">>,
      <<"S","1","!","A","2",":","A","1">>,
      <<"S","1","!","A","1",":","A","2",":","A","1">>,
      <<"S","1","!","A","1",":","A","A","A","A","1">> }

NameTables ==
    UNION { [1..n -> NameRefs] : n \in 0..MaxNames }

\* the cells of a sheet of the exploration: two rows of two columns
ExploreAddrs == <<"A1", "A2", "B1", "B2">>

\* the second column: static text in the header row, static text or a
\* standard formula below it
HeaderText == PyString(<<"x">>)
ColumnBValues == { HeaderText, PyString(<<"=">> \o FormulaText) }

\* the workbook of the exploration: column A of sheet S1 holds any values,
\* sheet S2 is empty
ExploreGrids ==
    { [s \in Range(SheetNames) |-> IF s = "S1" THEN ws ELSE [a \in Range(ExploreAddrs) |-> None]] :
        ws \in { f \in [Range(ExploreAddrs) -> CellValues] :
                    f["B1"] = HeaderText /\ f["B2"] \in ColumnBValues } }

ZeroTypeCounts == [SINGLE |-> 0, HORIZONTAL |-> 0, VERTICAL |-> 0, TABLE |-> 0]
ZeroClassificationCounts == [INPUT |-> 0, OUTPUT |-> 0, UNKNOWN |-> 0]

InitExplore ==
    /\ pc = "describe"
    /\ \E g \in ExploreGrids : grid = LoadWorkbook(g)
    /\ \E t \in NameTables :
          defined_names = [i \in DOMAIN t |-> [name |-> <<"N">> \o DecStr(i), value |-> t[i]]]
    /\ grid0 = grid
    /\ names0 = defined_names
    /\ name_i = 1
    /\ described = <<>>
    /\ type_counts = NoCounts
    /\ classification_counts = NoCounts
    /\ IdleNormalize
    /\ IdleDetect
    /\ IdleParse
    /\ IdleSynth
    /\ IdleScrub
    /\ reports = <<>>

\* the call chain of one loop iteration raises outside the try block
NameRaises(defined_name) ==
    LET p == parse_range_ref(defined_name.value) IN
    IF p = ValueError THEN TRUE
    ELSE IF p = None THEN FALSE
    ELSE get_range_type(p) = "ValueError"

\* section 2, one iteration of `for name in wb.defined_names`
DescribeName ==
    /\ pc = "describe"
    /\ name_i <= Len(defined_names)
    /\ ~NameRaises(defined_names[name_i])
    /\ LET defined_name == defined_names[name_i]
           p == parse_range_ref(defined_name.value)
       IN described' = IF p # None
                       THEN Append(described, [name |-> defined_name.name, parsed |-> p,
                                               type |-> get_range_type(p),
                                               classification |-> ProbeRole(grid, p)])
                       ELSE described
    /\ name_i' = name_i + 1
    /\ UNCHANGED <<pc, wbVars, type_counts, classification_counts>>
    /\ UNCHANGED <<nzVars, detVars, pxVars, synVars, scrVars>>
    /\ UNCHANGED reports

\* the ValueError of parse_range_ref or get_range_type ends the script
DescribeRaises ==
    /\ pc = "describe"
    /\ name_i <= Len(defined_names)
    /\ NameRaises(defined_names[name_i])
    /\ pc' = "crashed"
    /\ UNCHANGED <<wbVars, exVars, nzVars, detVars, pxVars, synVars, scrVars>>
    /\ UNCHANGED reports

\* sections 3 and 4 only read cells; section 5 starts its counters
StartSummary ==
    /\ pc = "describe"
    /\ name_i > Len(defined_names)
    /\ pc' = "summary"
    /\ name_i' = 1
    /\ type_counts' = ZeroTypeCounts
    /\ classification_counts' = ZeroClassificationCounts
    /\ UNCHANGED <<wbVars, described>>
    /\ UNCHANGED <<nzVars, detVars, pxVars, synVars, scrVars>>
    /\ UNCHANGED reports

\* section 5, one iteration of `for name in wb.defined_names`
SummarizeName ==
    /\ pc = "summary"
    /\ name_i <= Len(defined_names)
    /\ LET defined_name == defined_names[name_i]
           p == parse_range_ref(defined_name.value)
       IN IF NameRaises(defined_name)
          THEN /\ pc' = "crashed"
               /\ UNCHANGED <<name_i, type_counts, classification_counts>>
          ELSE /\ pc' = pc
               /\ name_i' = name_i + 1
               /\ IF p # None
                  THEN /\ type_counts' = [type_counts EXCEPT ![get_range_type(p)] = @ + 1]
                       /\ classification_counts' = [classification_counts EXCEPT ![ProbeRole(grid, p)] = @ + 1]
                  ELSE UNCHANGED <<type_counts, classification_counts>>
    /\ UNCHANGED <<wbVars, described>>
    /\ UNCHANGED <<nzVars, detVars, pxVars, synVars, scrVars>>
    /\ UNCHANGED reports

\* the counts are printed and the workbook closed
FinishSummary ==
    /\ pc = "summary"
    /\ name_i > Len(defined_names)
    /\ pc' = "done"
    /\ UNCHANGED <<wbVars, exVars, nzVars, detVars, pxVars, synVars, scrVars>>
    /\ UNCHANGED reports

NextExplore == DescribeName \/ DescribeRaises \/ StartSummary \/ SummarizeName \/ FinishSummary

SpecExplore == InitExplore /\ [][NextExplore]_vars

-----------------------------------------------------------------------------
(* clean_dev_xlsx.py: label_to_name *)

WhitespaceChars == {" "}

\* str.isalpha on one character
IsAlpha(c) == IsUpper(c) \/ IsLower(c)

\* an exception leaving the function
TypeError == [t |-> "TypeError"]

\* re.sub(r'\s*\([^)]*\)', '', s): the leftmost match starts at a whitespace
\* run that is followed by "(" and ends at the first ")" after it
RECURSIVE RemoveParens(_)
RemoveParens(s) ==
    IF Len(s) = 0 THEN <<>>
    ELSE LET open == RunLength(s, 1, WhitespaceChars) + 1
             closes == {k \in (open + 1)..Len(s) : s[k] = ")"}
         IN IF open <= Len(s) /\ s[open] = "(" /\ closes # {}
            THEN LET close == CHOOSE k \in closes : \A j \in closes : k <= j
                 IN RemoveParens(SubSeq(s, close + 1, Len(s)))
            ELSE <<s[1]>> \o RemoveParens(Tail(s))

\* re.sub(r'[^a-zA-Z0-9_\s]', '', s)
RemoveSpecial(s) ==
    SelectSeq(s, LAMBDA ch : IsAlpha(ch) \/ IsDigit(ch) \/ ch = "_" \/ ch \in WhitespaceChars)

\* s.split(): the maximal runs of non-whitespace characters
RECURSIVE SplitWords(_)
SplitWords(s) ==
    IF Len(s) = 0 THEN <<>>
    ELSE IF s[1] \in WhitespaceChars THEN SplitWords(Tail(s))
    ELSE LET n == CHOOSE k \in 1..Len(s) :
                      /\ \A j \in 1..k : s[j] \notin WhitespaceChars
                      /\ k = Len(s) \/ s[k + 1] \in WhitespaceChars
         IN <<SubSeq(s, 1, n)>> \o SplitWords(SubSeq(s, n + 1, Len(s)))

\* word.islower(): at least one cased character and no uppercase one
IsLowerWord(word) ==
    /\ \E i \in DOMAIN word : IsLower(word[i])
    /\ \A i \in DOMAIN word : ~IsUpper(word[i])

\* variant: the word is left as it is
Capitalize_asis(word) == word

\* word.capitalize(): first character upper, the rest lower
Capitalize(word) ==
    IF Len(word) = 0 THEN word
    ELSE <<UpperChar(word[1])>> \o Lower(Tail(word))

\* ''.join(word.capitalize() if word.islower() else word for word in words)
RECURSIVE JoinWords(_)
JoinWords(words) ==
    IF Len(words) = 0 THEN <<>>
    ELSE (IF IsLowerWord(Head(words)) THEN Capitalize(Head(words)) ELSE Head(words))
         \o JoinWords(Tail(words))

\* variant: an empty name gets the underscore too
EnsureLeading_empty(name) ==
    IF Len(name) = 0 \/ (~IsAlpha(name[1]) /\ name[1] # "_") THEN <<"_">> \o name ELSE name

\* if name and not name[0].isalpha() and name[0] != '_': name = '_' + name
EnsureLeading(name) ==
    IF Len(name) > 0 /\ ~IsAlpha(name[1]) /\ name[1] # "_" THEN <<"_">> \o name ELSE name

\* label is a cell value; re.sub on a value that is not a str raises TypeError
label_to_name(label) ==
    IF ~Truthy(label) THEN None
    ELSE IF label.t # "str" THEN TypeError
    ELSE LET name == EnsureLeading(JoinWords(SplitWords(RemoveSpecial(RemoveParens(label.s)))))
         IN IF Len(name) > 0 THEN PyString(name) ELSE None

\* the labels of the model: every string over LabelChars up to MaxLabelLen
\* characters, the examples of the docstring and the non-text cell values
MaxLabelLen == 5
LabelChars == {"a", "B", "2", " ", "(", ")", "%", "_"}
LabelStrings == UNION {[1..n -> LabelChars] : n \in 0..MaxLabelLen}
ExampleLabels ==
    { <<"F","I","C","O"," ","S","c","o","r","e">>,
      <<"L","o","a","n"," ","A","m","o","u","n","t"," ","(","U","S","D",")">>,
      <<"2","n","d"," ","L","i","e","n">>,
      <<"(","U","S","D",")">> }
Labels == {PyString(s) : s \in LabelStrings \cup ExampleLabels} \cup {None, PyInt(0), PyInt(7)}

InitSynth ==
    /\ pc = "synth"
    /\ cur_label \in Labels
    /\ range_name = None
    /\ grid = [s \in {} |-> None] /\ defined_names = <<>>
    /\ grid0 = grid /\ names0 = defined_names
    /\ IdleNormalize /\ IdleDetect /\ IdleParse /\ IdleExplore /\ IdleScrub
    /\ reports = <<>>

Synthesize ==
    /\ pc = "synth"
    /\ range_name' = label_to_name(cur_label)
    /\ pc' = "done"
    /\ UNCHANGED <<cur_label, wbVars, nzVars, detVars, pxVars, exVars, scrVars>>
    /\ UNCHANGED reports

NextSynth == Synthesize

SpecSynth == InitSynth /\ [][NextSynth]_vars

-----------------------------------------------------------------------------
(* clean_dev_xlsx.py: main *)

\* the rows of the Input sheet that hold anything in the model; the rows
\* after them, up to the end of range(1, 100), are empty
ScrubRows == 2

\* for row in range(1, 100)
LastRow == 99

LabelColumn == 3
ValueColumn == 4

\* a row past the loop's range; it carries a label and a literal
OutsideRow == LastRow + 1

ScrubCells == ((1..ScrubRows) \cup {OutsideRow}) \X {LabelColumn, ValueColumn}

\* the label cells of the model: empty, a number, two labels whose names
\* differ only by case, a label of special characters only
ScrubLabels == { None, PyInt(7), PyString(<<"a", "b">>), PyString(<<"a", "B">>), PyString(<<"%">>) }

InputSheets ==
    { ws \in [ScrubCells -> CellValues \cup ScrubLabels] :
         /\ \A r \in 1..ScrubRows : ws[<<r, LabelColumn>>] \in ScrubLabels
         /\ \A r \in 1..ScrubRows : ws[<<r, ValueColumn>>] \in CellValues
         /\ ws[<<OutsideRow, LabelColumn>>] = PyString(<<"a", "b">>)
         /\ ws[<<OutsideRow, ValueColumn>>] = PyInt(7) }

\* the defined names of the loaded workbook: none, or one that a label of
\* the sheet also yields
LoadedNames ==
    { <<>>, <<[name |-> <<"A", "b">>, value |-> <<"'", "I", "n", "p", "u", "t", "'", "!", "$", "D", "$", "1", "0", "0">>]>> }

\* ws.cell(row=row, column=column).value; a cell the sheet does not hold is
\* created empty
ValueAt(ws, r, c) == IF <<r, c>> \in DOMAIN ws THEN ws[<<r, c>>].value ELSE None

\* is_formula = isinstance(d_val, str) and d_val.startswith('=')
is_formula(d_val) == d_val.t = "str" /\ StartsWith(d_val.s, <<"=">>)

\* ref = f"'Input'!$D${row}"
RefOfRow(r) == <<"'", "I", "n", "p", "u", "t", "'", "!", "$", "D", "$">> \o DecStr(r)

\* variant: the name is never found
NameExists_never(names, n) == FALSE

\* range_name in wb.defined_names: the keys are compared as they are
NameExists(names, n) == \E i \in DOMAIN names : names[i].name = n

\* wb.defined_names.add(DefinedName(range_name, attr_text=ref)): the
\* container is keyed by name
AddName(names, n, r) ==
    IF \E i \in DOMAIN names : names[i].name = n
    THEN [i \in DOMAIN names |-> IF names[i].name = n THEN [name |-> n, value |-> r] ELSE names[i]]
    ELSE Append(names, [name |-> n, value |-> r])

InitScrub ==
    /\ pc = "scrub"
    /\ \E ws \in InputSheets :
          grid = [s \in {"Input"} |-> [a \in ScrubCells |-> [value |-> ws[a], style |-> "general"]]]
    /\ defined_names \in LoadedNames
    /\ grid0 = grid
    /\ names0 = defined_names
    /\ cur_row = 1
    /\ cleared_cells = <<>>
    /\ named_ranges = <<>>
    /\ skipped_formulas = <<>>
    /\ warnings = <<>>
    /\ IdleNormalize /\ IdleDetect /\ IdleParse /\ IdleExplore /\ IdleSynth
    /\ reports = <<>>

\* one iteration of the row loop that ends normally
ScrubRow ==
    /\ pc = "scrub"
    /\ cur_row <= ScrubRows
    /\ LET ws == grid["Input"]
           c_val == ValueAt(ws, cur_row, LabelColumn)
           d_val == ValueAt(ws, cur_row, ValueColumn)
           name == IF c_val = None THEN None ELSE label_to_name(c_val)
           target == <<cur_row, ValueColumn>>
       IN /\ name # TypeError
          /\ IF c_val = None \/ ~Truthy(name)
             THEN UNCHANGED <<wbVars, cleared_cells, skipped_formulas, named_ranges, warnings>>
             ELSE /\ IF is_formula(d_val)
                     THEN /\ skipped_formulas' = Append(skipped_formulas, <<cur_row, c_val, d_val>>)
                          /\ UNCHANGED <<grid, cleared_cells>>
                     ELSE IF d_val # None
                     THEN /\ cleared_cells' = Append(cleared_cells, <<cur_row, c_val, d_val>>)
                          /\ grid' = [grid EXCEPT !["Input"][target].value = None]
                          /\ UNCHANGED skipped_formulas
                     ELSE UNCHANGED <<grid, cleared_cells, skipped_formulas>>
                  /\ IF NameExists(defined_names, name.s)
                     THEN /\ warnings' = Append(warnings, name.s)
                          /\ UNCHANGED <<defined_names, named_ranges>>
                     ELSE /\ defined_names' = AddName(defined_names, name.s, RefOfRow(cur_row))
                          /\ named_ranges' = Append(named_ranges, <<name.s, RefOfRow(cur_row), c_val>>)
                          /\ UNCHANGED warnings
    /\ cur_row' = cur_row + 1
    /\ UNCHANGED <<pc, nzVars, detVars, pxVars, exVars, synVars>>
    /\ UNCHANGED reports

\* label_to_name raises on the label of the row: nothing catches it
ScrubRowRaises ==
    /\ pc = "scrub"
    /\ cur_row <= ScrubRows
    /\ LET c_val == ValueAt(grid["Input"], cur_row, LabelColumn)
       IN c_val # None /\ label_to_name(c_val) = TypeError
    /\ pc' = "crashed"
    /\ UNCHANGED <<wbVars, nzVars, detVars, pxVars, exVars, synVars, scrVars>>
    /\ UNCHANGED reports

\* the iterations over the empty rows up to LastRow: each one continues
ScrubEmptyRows ==
    /\ pc = "scrub"
    /\ cur_row = ScrubRows + 1
    /\ cur_row' = LastRow + 1
    /\ UNCHANGED <<pc, wbVars, nzVars, detVars, pxVars, exVars, synVars>>
    /\ UNCHANGED <<cleared_cells, skipped_formulas, named_ranges, warnings>>
    /\ UNCHANGED reports

\* wb.save(output_file)
ScrubSave ==
    /\ pc = "scrub"
    /\ cur_row = LastRow + 1
    /\ saved' = [grid |-> grid, defined_names |-> defined_names]
    /\ pc' = "done"
    /\ UNCHANGED <<wbVars, array_cells, idx, fixed_count, fixed_cells, skipped, pass, grid0, names0>>
    /\ UNCHANGED <<detVars, pxVars, exVars, synVars, scrVars>>
    /\ UNCHANGED reports

NextScrub == ScrubRow \/ ScrubRowRaises \/ ScrubEmptyRows \/ ScrubSave

SpecScrub == InitScrub /\ [][NextScrub]_vars

-----------------------------------------------------------------------------
(* clean_dev_xlsx.py run again on the file it wrote *)

\* the second run loads the workbook that wb.save wrote; the lists of the
\* first run are what its summary printed
ScrubAgain ==
    /\ pc = "done"
    /\ cur_row = LastRow + 1
    /\ reports = <<>>
    /\ reports' = <<[script |-> "clean", cleared_cells |-> cleared_cells,
                     skipped_formulas |-> skipped_formulas, named_ranges |-> named_ranges,
                     saved |-> saved]>>
    /\ grid' = saved.grid
    /\ defined_names' = saved.defined_names
    /\ cur_row' = 1
    /\ cleared_cells' = <<>>
    /\ named_ranges' = <<>>
    /\ skipped_formulas' = <<>>
    /\ warnings' = <<>>
    /\ saved' = NotSaved
    /\ pc' = "scrub"
    /\ UNCHANGED <<array_cells, idx, fixed_count, fixed_cells, skipped, pass, grid0, names0>>
    /\ UNCHANGED <<detVars, pxVars, exVars, synVars>>

NextRescrub == NextScrub \/ ScrubAgain

SpecRescrub == InitScrub /\ [][NextRescrub]_vars

-----------------------------------------------------------------------------
(* detect_array_formulas.py, remove_array_flags.py on the cells it found,
   detect_array_formulas.py on the file written *)

InitLifecycle == InitDetect

\* the "Array formula locations" of the discovery are the array_cells list
\* of remove_array_flags.py, which loads the same file
NormalizeDiscovered ==
    /\ pc = "done"
    /\ sheet_i > Len(SheetNames)
    /\ reports = <<>>
    /\ reports' = <<[script |-> "detect", array_formulas |-> array_formulas,
                     total_formulas |-> total_formulas]>>
    /\ array_cells' = [i \in DOMAIN array_formulas |->
                          [sheet |-> array_formulas[i][1], addr |-> array_formulas[i][2].cell]]
    /\ idx' = 1
    /\ fixed_count' = 0
    /\ fixed_cells' = <<>>
    /\ skipped' = <<>>
    /\ pass' = 1
    /\ pc' = "normalize"
    /\ UNCHANGED <<wbVars, grid0, names0, saved>>
    /\ UNCHANGED <<detVars, pxVars, exVars, synVars, scrVars>>

\* detect_array_formulas.py loads the file that wb.save wrote
ScanAgain ==
    /\ pc = "done"
    /\ pass = 1
    /\ Len(reports) = 1
    /\ reports[1].script = "detect"
    /\ saved # NotSaved
    /\ reports' = Append(reports, [script |-> "remove", fixed_count |-> fixed_count,
                                   fixed_cells |-> fixed_cells])
    /\ grid' = saved
    /\ sheet_i' = 1
    /\ array_formulas' = <<>>
    /\ total_formulas' = 0
    /\ sheet_lines' = <<>>
    /\ pc' = "scan"
    /\ UNCHANGED <<defined_names, nzVars>>
    /\ UNCHANGED <<pxVars, exVars, synVars, scrVars>>

NextLifecycle ==
    ScanSheet \/ ScanSummary \/ NormalizeDiscovered \/ NormalizeStep \/ NormalizeSave \/ ScanAgain

SpecLifecycle == InitLifecycle /\ [][NextLifecycle]_vars

-----------------------------------------------------------------------------
(* The scripts together: each run is one script on one loaded workbook *)

Init == InitNormalize \/ InitDetect \/ InitParse \/ InitExplore \/ InitSynth \/ InitScrub \/ InitLifecycle

Next == NextNormalize \/ NextDetect \/ NextParse \/ NextExplore \/ NextSynth \/ NextRescrub \/ NextLifecycle

Spec == Init /\ [][Next]_vars

-----------------------------------------------------------------------------
(* Properties of the normalizer and of the discovery scan *)

AllCells == Range(SheetNames) \X Range(CellAddrs)

\* the cell (s, a) is named by some entry of the cell list
Listed(s, a) == \E i \in DOMAIN array_cells : array_cells[i] = [sheet |-> s, addr |-> a]

\* the first run of the normalizer has ended, by save or by an exception
FirstPassEnded == pass = 1 /\ pc \in {"done", "aborted"}

\* C1: when a normalize pass has ended, every listed cell that was
\* array-formula-typed with text T holds the standard formula "=" + T and is
\* in `converted`; the style of every cell, the value of every listed cell
\* that was not array-typed and the value of every unlisted cell are as they
\* were before the pass.
C1_ExactlyOneChange ==
    FirstPassEnded =>
        \A c \in AllCells :
            LET before == grid0[c[1]][c[2]]
                after == grid[c[1]][c[2]]
            IN /\ after.style = before.style
               /\ IF Listed(c[1], c[2]) /\ IsArrayFormula(before.value)
                  THEN /\ after.value = PyString(<<"=">> \o before.value.text)
                       /\ \E i \in DOMAIN fixed_cells : fixed_cells[i] = Coordinate(c[1], c[2])
                  ELSE after.value = before.value

\* C2: a second pass over the `converted` list of a finished pass converts
\* nothing, changes no cell, does not fail, and ends with every address of
\* its list under `skipped` with reason ALREADY_STANDARD, in list order.
C2_RerunIsNoOp ==
    pass = 2 =>
        /\ pc # "aborted"
        /\ grid = grid0
        /\ fixed_cells = <<>>
        /\ fixed_count = 0
        /\ pc = "done" =>
              skipped = [i \in DOMAIN array_cells |->
                            [coord |-> Coordinate(array_cells[i].sheet, array_cells[i].addr),
                             reason |-> "ALREADY_STANDARD"]]

\* a re-run over two converted cells has finished
C2_Witness == pass = 2 /\ pc = "done" /\ Len(array_cells) >= 2 /\ Len(skipped) >= 2

\* C3: a normalize pass is best-effort: it always reaches the save, every
\* entry whose cell is array-typed is converted whatever entries precede it,
\* and every other entry (absent sheet, standard formula, non-formula) is
\* recorded in `skipped`.
C3_BestEffort ==
    FirstPassEnded =>
        /\ pc = "done"
        /\ \A i \in DOMAIN array_cells :
              LET e == array_cells[i] IN
              IF HasSheet(e.sheet) /\ IsArrayFormula(grid0[e.sheet][e.addr].value)
              THEN \E j \in DOMAIN fixed_cells : fixed_cells[j] = Coordinate(e.sheet, e.addr)
              ELSE \E j \in DOMAIN skipped : skipped[j].coord = Coordinate(e.sheet, e.addr)

\* the cells of a grid whose value is array-formula-typed
ArrayCellsOf(g) == {c \in AllCells : g[c[1]][c[2]].value.t = "ArrayFormula"}

\* the number of cells of sheet s holding a standard formula string
OrdinaryFormulas(g, s) ==
    Cardinality({a \in Range(CellAddrs) :
        /\ g[s][a].value.t = "str"
        /\ Len(g[s][a].value.s) >= 1
        /\ g[s][a].value.s[1] = "="})

RECURSIVE SumOrdinary(_, _)
SumOrdinary(g, k) == IF k = 0 THEN 0 ELSE SumOrdinary(g, k - 1) + OrdinaryFormulas(g, SheetNames[k])

ReportedArrayCells == {<<array_formulas[i][1], array_formulas[i][2].cell>> : i \in DOMAIN array_formulas}

\* the report carries the ordinary-formula count of sheet s
ReportsCount(s) ==
    \E i \in DOMAIN sheet_lines :
        /\ sheet_lines[i].sheet = s
        /\ sheet_lines[i].status = "OK"
        /\ sheet_lines[i].regular_formulas = OrdinaryFormulas(grid0, s)

ScanEnded == sheet_i > Len(SheetNames) /\ pc = "done"

\* C4 as stated: a finished discovery scan reports exactly the array-formula
\* cells, reports for every sheet its number of ordinary-formula cells, and
\* leaves grid and defined names unchanged.
C4_CountForEverySheet ==
    ScanEnded =>
        /\ ReportedArrayCells = ArrayCellsOf(grid0)
        /\ \A s \in Range(SheetNames) : ReportsCount(s)
        /\ grid = grid0
        /\ defined_names = names0

\* C4 amended: a finished discovery scan reports exactly the array-formula
\* cells, each once; it reports the ordinary-formula count of every sheet
\* that has no array-formula cell and the total of ordinary-formula cells
\* over all sheets (a sheet with array-formula cells has those cells listed
\* and no count of its own); grid and defined names are unchanged.
C4_Discovery ==
    ScanEnded =>
        /\ ReportedArrayCells = ArrayCellsOf(grid0)
        /\ Len(array_formulas) = Cardinality(ArrayCellsOf(grid0))
        /\ Len(sheet_lines) = Len(SheetNames)
        /\ \A i \in DOMAIN sheet_lines :
              LET s == SheetNames[i] IN
              /\ sheet_lines[i].sheet = s
              /\ IF \E a \in Range(CellAddrs) : <<s, a>> \in ArrayCellsOf(grid0)
                 THEN /\ sheet_lines[i].status = "ARRAY FORMULAS FOUND"
                      /\ {sheet_lines[i].arrays[j].cell : j \in DOMAIN sheet_lines[i].arrays}
                            = {a \in Range(CellAddrs) : <<s, a>> \in ArrayCellsOf(grid0)}
                 ELSE ReportsCount(s)
        /\ total_formulas = SumOrdinary(grid0, Len(SheetNames))
        /\ grid = grid0
        /\ defined_names = names0

\* a finished scan of a workbook with an array-formula cell on one sheet and
\* ordinary formulas on both sheets
C4_Witness ==
    /\ ScanEnded
    /\ Len(array_formulas) = 1
    /\ total_formulas >= 2
    /\ \E i, j \in DOMAIN sheet_lines :
          /\ sheet_lines[i].status = "OK" /\ sheet_lines[i].regular_formulas = 1
          /\ sheet_lines[j].status = "ARRAY FORMULAS FOUND"

-----------------------------------------------------------------------------
(* Properties of the reference parser and of the shape classifier *)

Shapes == {"SINGLE", "HORIZONTAL", "VERTICAL", "TABLE"}

\* the parser returned a reference and the classifier has been applied to it
Classified == pc \in {"parse_lower", "reparse", "done"} /\ parsed.t = "dict"

\* region dimensions from the structured coordinates
RowsOf(p) == p.end_row - p.start_row + 1
ColsOf(p) == Base26(p.end_col) - Base26(p.start_col) + 1

\* the shape table: rows x cols -> shape
ShapeOf(rows, cols) ==
    IF rows = 1 /\ cols = 1 THEN "SINGLE"
    ELSE IF rows = 1 THEN "HORIZONTAL"
    ELSE IF cols = 1 THEN "VERTICAL"
    ELSE "TABLE"

\* C5: for every parsed reference of rows >= 1 and cols >= 1 the shape is the
\* one the table gives for (rows, cols): SINGLE for 1x1 (written with or
\* without a colon), HORIZONTAL for 1xN, VERTICAL for Nx1, TABLE otherwise.
C5_ShapeByDimensions ==
    (Classified /\ RowsOf(parsed) >= 1 /\ ColsOf(parsed) >= 1) =>
        range_type = ShapeOf(RowsOf(parsed), ColsOf(parsed))

\* C6: for every reference the parser returns, the classifier returns one of
\* the four shapes and does not raise.
C6_ClassifyTotal == Classified => range_type \in Shapes

(* the reference grammar [['<sheet>']!]<col><row>[:<col><row>] *)
IsColText(s) == Len(s) >= 1 /\ \A i \in DOMAIN s : IsUpper(s[i]) \/ IsLower(s[i])
IsRowText(s) == Len(s) >= 1 /\ \A i \in DOMAIN s : IsDigit(s[i])
IsCellText(s) == \E k \in 1..(Len(s) - 1) : IsColText(SubSeq(s, 1, k)) /\ IsRowText(SubSeq(s, k + 1, Len(s)))
IsRangeText(s) ==
    \/ IsCellText(s)
    \/ \E i \in DOMAIN s : /\ s[i] = ":"
                           /\ IsCellText(SubSeq(s, 1, i - 1))
                           /\ IsCellText(SubSeq(s, i + 1, Len(s)))
MatchesGrammar(raw) ==
    LET s == Remove(raw, "$") IN
    \/ IsRangeText(s)
    \/ \E i \in DOMAIN s : /\ s[i] = "!"
                           /\ "!" \notin Range(SubSeq(s, 1, i - 1))
                           /\ IsRangeText(SubSeq(s, i + 1, Len(s)))

\* C7: a string that does not match the whole grammar after removing "$"
\* is rejected: the parser returns no reference for it and does not crash.
C7_RejectsMalformed ==
    (pc # "parse" /\ ~MatchesGrammar(ref)) => parsed = None

\* C8: the parser never returns a range whose start is after its end in
\* column or in row.
C8_NoInvertedRange ==
    (pc # "parse" /\ parsed.t = "dict") =>
        /\ Base26(parsed.start_col) <= Base26(parsed.end_col)
        /\ parsed.start_row <= parsed.end_row

\* C9: the lower-case spelling of a reference parses exactly when the
\* upper-case spelling does, to the same sheet, column numbers and rows.
C9_CaseInsensitive ==
    pc \in {"reparse", "done"} =>
        /\ (parsed.t = "dict") <=> (parsed_lower.t = "dict")
        /\ (parsed.t = "dict" /\ parsed_lower.t = "dict") =>
              /\ parsed_lower.sheet = parsed.sheet
              /\ Base26(Upper(parsed_lower.start_col)) = Base26(parsed.start_col)
              /\ Base26(Upper(parsed_lower.end_col)) = Base26(parsed.end_col)
              /\ parsed_lower.start_row = parsed.start_row
              /\ parsed_lower.end_row = parsed.end_row
              /\ parsed_lower.is_range = parsed.is_range

\* C10: for every reference string the parser accepts, parsing the
\* re-serialised result gives the same sheet, start, end and isRange.
C10_RoundTrip ==
    (pc = "done" /\ parsed.t = "dict") => reparsed = parsed

\* a quoted-sheet absolute range with a two-digit row was parsed,
\* re-serialised to a different string and parsed again
C10_Witness ==
    /\ pc = "done"
    /\ parsed.t = "dict"
    /\ parsed.is_range
    /\ parsed.sheet # None
    /\ parsed.end_row = 10
    /\ Serialize(parsed) # ref
    /\ reparsed.t = "dict"

-----------------------------------------------------------------------------
(* Properties of the classification scan over the defined names *)

Roles == {"INPUT", "OUTPUT", "UNKNOWN"}

\* the cell value is a formula: the standard-formula string or the
\* array-formula variant
IsFormulaValue(v) ==
    \/ v.t = "ArrayFormula"
    \/ v.t = "str" /\ Len(v.s) >= 1 /\ v.s[1] = "="

\* the probe cell of a parsed region cannot be resolved
Unresolved(p) ==
    \/ p.sheet = None
    \/ \A n \in Range(SheetNames) : SheetTitle(n) # p.sheet.s
    \/ p.start_row < 1
    \/ Len(p.start_col) > MaxColumnLetters

\* the role of a parsed region by the role table
RoleOf(g, p) ==
    IF Unresolved(p) THEN "UNKNOWN"
    ELSE IF IsFormulaValue(CellValueAt(g[SheetOf(p.sheet)], p.start_row, Base26(p.start_col)))
    THEN "OUTPUT"
    ELSE "INPUT"

\* the names of the table, by position, whose region has role r
NamesWithRole(r) ==
    {i \in DOMAIN defined_names :
        LET p == parse_range_ref(defined_names[i].value) IN
        IF p.t = "dict" THEN RoleOf(grid0, p) = r ELSE FALSE}

\* C11: every described region has the role of the role table: OUTPUT
\* exactly when the probe cell holds a formula (standard or array variant),
\* INPUT when it holds a literal or is empty, UNKNOWN when the probe cell
\* cannot be resolved; and the finished summary counts the regions by that
\* role.
C11_RoleOfProbe ==
    /\ \A i \in DOMAIN described :
          described[i].classification = RoleOf(grid0, described[i].parsed)
    /\ pc = "done" /\ name_i > 0 =>
          \A r \in Roles : classification_counts[r] = Cardinality(NamesWithRole(r))

\* the scan over the defined names has ended, by its end or by an exception
ExploreEnded == name_i > 0 /\ pc \in {"done", "crashed"}

\* C12: the scan over the defined names always reaches its end, and every
\* name whose reference matches the grammar has been described with a shape
\* and a role, whatever references precede it.
C12_ScanIsolatesNames ==
    ExploreEnded =>
        /\ pc = "done"
        /\ \A i \in DOMAIN defined_names :
              MatchesGrammar(defined_names[i].value) =>
                  \E j \in DOMAIN described :
                      /\ described[j].name = defined_names[i].name
                      /\ described[j].type \in Shapes
                      /\ described[j].classification \in Roles

-----------------------------------------------------------------------------
(* Properties of label_to_name *)

SynthEnded == pc = "done" /\ cur_label.t = "str" /\ name_i = 0 /\ cur_row = 0

\* a character that stands for a removed parenthesised group
GroupMark == "#"

\* each "(" with a later ")" is replaced, up to the first ")", by the mark
RECURSIVE MarkGroups(_)
MarkGroups(s) ==
    IF Len(s) = 0 THEN <<>>
    ELSE IF s[1] = "(" /\ \E k \in 2..Len(s) : s[k] = ")"
    THEN LET k == CHOOSE i \in 2..Len(s) : s[i] = ")" /\ \A j \in 2..(i - 1) : s[j] # ")"
         IN <<GroupMark>> \o MarkGroups(SubSeq(s, k + 1, Len(s)))
    ELSE <<s[1]>> \o MarkGroups(Tail(s))

\* the whitespace that stands right before a mark
BeforeMark(s, i) ==
    /\ s[i] \in WhitespaceChars
    /\ \E k \in (i + 1)..Len(s) :
          /\ s[k] = GroupMark
          /\ \A j \in i..(k - 1) : s[j] \in WhitespaceChars

DropBeforeMark(s) ==
    LET keep == {i \in DOMAIN s : ~BeforeMark(s, i)}
        Nth(n) == CHOOSE i \in keep : Cardinality({j \in keep : j <= i}) = n
    IN [n \in 1..Cardinality(keep) |-> s[Nth(n)]]

\* step 1 of the pipeline, with or without the whitespace before a group
RefRemoveGroups(s, with_space) ==
    Remove(IF with_space THEN DropBeforeMark(MarkGroups(s)) ELSE MarkGroups(s), GroupMark)

\* step 2: only letters, digits, underscores and whitespace stay
RefKeep(s) ==
    SelectSeq(s, LAMBDA ch : ch \in Range(UpperLetters) \cup Range(LowerLetters)
                                   \cup Range(DigitChars) \cup {"_"} \cup WhitespaceChars)

\* step 3: the words between the blanks
RefWords(s) == SelectSeq(Split(s, " "), LAMBDA w : Len(w) > 0)

RefCapitalise(w) ==
    IF \A i \in DOMAIN w : w[i] \notin Range(UpperLetters)
    THEN <<UpperChar(w[1])>> \o Tail(w)
    ELSE w

RECURSIVE RefConcat(_)
RefConcat(ws) ==
    IF Len(ws) = 0 THEN <<>> ELSE RefCapitalise(Head(ws)) \o RefConcat(Tail(ws))

\* step 4: the leading-character rule on a non-empty result
RefPrefix(n) ==
    IF Len(n) > 0 /\ n[1] \notin Range(UpperLetters) \cup Range(LowerLetters) \cup {"_"}
    THEN <<"_">> \o n
    ELSE n

Reference(s, with_space) == RefPrefix(RefConcat(RefWords(RefKeep(RefRemoveGroups(s, with_space)))))

Blank(s) == \A i \in DOMAIN s : s[i] \in WhitespaceChars

\* C13 (as stated): for every label, label_to_name returns what the pipeline
\* gives when only the parenthesised substrings themselves are removed in
\* step 1, and none for the empty or whitespace-only label.
C13_ReferencePipeline ==
    SynthEnded =>
        LET r == Reference(cur_label.s, FALSE)
        IN /\ Blank(cur_label.s) => range_name = None
           /\ Len(r) > 0 => range_name = PyString(r)

\* C13 (amended): label_to_name returns what the pipeline gives when step 1
\* removes each parenthesised substring together with the whitespace right
\* before it, and none when the pipeline's result is empty.
C13_PipelineWithSpace ==
    SynthEnded =>
        LET r == Reference(cur_label.s, TRUE)
        IN range_name = (IF Len(r) > 0 THEN PyString(r) ELSE None)

\* the label "a ()a": the blank before the group goes with it, one word is left
C13_Witness ==
    /\ SynthEnded
    /\ cur_label = PyString(<<"a", " ", "(", ")", "a">>)
    /\ range_name = PyString(<<"A", "a">>)

\* the result of steps 1-3 of label_to_name
Cleaned(s) == JoinWords(SplitWords(RemoveSpecial(RemoveParens(s))))

\* C19 (as stated): a non-blank label whose cleaned result is empty yields "_",
\* and none is returned only for an empty or whitespace-only label.
C19_EmptyResultIsUnderscore ==
    SynthEnded =>
        /\ ~Blank(cur_label.s) /\ Cleaned(cur_label.s) = <<>> => range_name = PyString(<<"_">>)
        /\ range_name = None => Blank(cur_label.s)

\* C19 (amended): label_to_name returns none exactly when the cleaned result
\* of steps 1-3 is empty, which covers "(USD)" and "%" as well as the empty
\* and the whitespace-only label; the underscore is prefixed only to a
\* non-empty result.
C19_EmptyResultIsNone ==
    SynthEnded =>
        /\ Cleaned(cur_label.s) = <<>> <=> range_name = None
        /\ range_name # None =>
              /\ range_name.t = "str"
              /\ Len(range_name.s) > 0
              /\ IsAlpha(range_name.s[1]) \/ range_name.s[1] = "_"

\* the label "(USD)": nothing is left of it and no name comes back
C19_Witness ==
    /\ SynthEnded
    /\ cur_label = PyString(<<"(", "U", "S", "D", ")">>)
    /\ range_name = None

-----------------------------------------------------------------------------
(* Properties of the row loop of clean_dev_xlsx.py *)

ScrubRun == cur_row > 0

\* the iteration over row r has ended
Processed(r) == ScrubRun /\ cur_row > r

LabelOf(r) == grid0["Input"][<<r, LabelColumn>>].value
LoadedValue(r) == grid0["Input"][<<r, ValueColumn>>].value
ValueNow(r) == grid["Input"][<<r, ValueColumn>>].value

\* the row's label is text that yields a name
Usable(r) == LabelOf(r).t = "str" /\ label_to_name(LabelOf(r)) # None

NameOfRow(r) == label_to_name(LabelOf(r)).s

\* the entries of named_ranges made for row r
RegisteredFor(r) == {i \in DOMAIN named_ranges : named_ranges[i][2] = RefOfRow(r)}

Declared(n) == {i \in DOMAIN defined_names : defined_names[i].name = n}

\* C14: of two rows with the same label, once both are processed, the second
\* registers no name and is reported as already existing; the name is
\* declared once, and every registered name is the unaltered name of its
\* row's label.
C14_SameLabelTwice ==
    /\ \A r1, r2 \in 1..ScrubRows :
          r1 < r2 /\ Processed(r2) /\ Usable(r1) /\ LabelOf(r1) = LabelOf(r2) =>
              /\ RegisteredFor(r2) = {}
              /\ Cardinality(Declared(NameOfRow(r1))) = 1
              /\ \E i \in DOMAIN warnings : warnings[i] = NameOfRow(r2)
    /\ \A r \in 1..ScrubRows : \A i \in RegisteredFor(r) :
          Usable(r) /\ named_ranges[i][1] = NameOfRow(r)

\* two rows labelled alike, the first one registered, the second one reported
C14_Witness ==
    /\ pc = "done" /\ ScrubRun
    /\ LabelOf(1) = PyString(<<"a", "b">>) /\ LabelOf(2) = LabelOf(1)
    /\ RegisteredFor(1) # {}
    /\ RegisteredFor(2) = {}
    /\ warnings = <<NameOfRow(2)>>

\* C15: the declared identifiers stay pairwise distinct ignoring case, no
\* loaded identifier's reference changes, and every identifier a processed
\* row yields without registering it is in the warnings.
C15_UniqueIgnoringCase ==
    ScrubRun =>
        /\ \A i, j \in DOMAIN defined_names :
              i # j => Lower(defined_names[i].name) # Lower(defined_names[j].name)
        /\ \A i \in DOMAIN names0 : defined_names[i] = names0[i]
        /\ \A r \in 1..ScrubRows :
              Processed(r) /\ Usable(r) /\ RegisteredFor(r) = {} =>
                  \E i \in DOMAIN warnings : warnings[i] = NameOfRow(r)

\* a non-empty literal: neither empty nor a formula of either variant
IsLiteral(v) == v # None /\ ~IsFormulaValue(v)

\* C16: after the scrub, every row with a non-empty label and a literal in
\* its target cell has the target empty and its (row, label, value) among
\* the cleared cells, and a row with a usable name that is not yet declared
\* has that name registered for its own target cell.
C16_ClearsEveryLabelledLiteral ==
    pc = "done" /\ ScrubRun =>
        \A r \in 1..ScrubRows :
            /\ LabelOf(r) # None /\ IsLiteral(LoadedValue(r)) =>
                  /\ ValueNow(r) = None
                  /\ \E i \in DOMAIN cleared_cells :
                        cleared_cells[i] = <<r, LabelOf(r), LoadedValue(r)>>
            /\ Usable(r) /\ ~(\E i \in DOMAIN names0 : Lower(names0[i].name) = Lower(NameOfRow(r)))
               /\ ~(\E q \in 1..(r - 1) : Usable(q) /\ Lower(NameOfRow(q)) = Lower(NameOfRow(r))) =>
                  \E i \in DOMAIN defined_names :
                      defined_names[i] = [name |-> NameOfRow(r), value |-> RefOfRow(r)]

\* C17: a target cell that holds a formula of either variant is never
\* changed and, once its labelled row is processed, is among the skipped
\* formulas; the target of a row with an empty label is never changed; no
\* cell outside the target column and the row range is changed.
C17_Frame ==
    ScrubRun =>
        /\ \A r \in 1..ScrubRows :
              IsFormulaValue(LoadedValue(r)) =>
                  /\ grid["Input"][<<r, ValueColumn>>] = grid0["Input"][<<r, ValueColumn>>]
                  /\ Processed(r) /\ Usable(r) =>
                        \E i \in DOMAIN skipped_formulas :
                            skipped_formulas[i] = <<r, LabelOf(r), LoadedValue(r)>>
        /\ \A r \in 1..ScrubRows :
              LabelOf(r) = None =>
                  grid["Input"][<<r, ValueColumn>>] = grid0["Input"][<<r, ValueColumn>>]
        /\ \A a \in ScrubCells :
              a[2] # ValueColumn \/ a[1] > LastRow => grid["Input"][a] = grid0["Input"][a]

\* C18: no row ends the pass: the loop never stops on an exception, and
\* the pass that has left the loop has saved the workbook.
C18_RowFailuresIsolated ==
    ScrubRun =>
        /\ pc # "crashed"
        /\ pc = "done" => saved = [grid |-> grid, defined_names |-> defined_names]

-----------------------------------------------------------------------------
(* Data-model invariants of the parsed reference *)

\* C20: every reference the parser returns has start and end columns and
\* rows of at least 1, and a reference that is not a range has its start
\* equal to its end.
C20_ReferenceInvariants ==
    (pc # "parse" /\ parsed.t = "dict") =>
        /\ Base26(parsed.start_col) >= 1 /\ Base26(parsed.end_col) >= 1
        /\ parsed.start_row >= 1 /\ parsed.end_row >= 1
        /\ ~parsed.is_range =>
              parsed.start_col = parsed.end_col /\ parsed.start_row = parsed.end_row

-----------------------------------------------------------------------------
(* The probe of the classification reads the start cell only *)

\* two parsed regions start at the same cell of the same sheet
SameStart(p, q) ==
    /\ p.sheet = q.sheet
    /\ p.start_col = q.start_col
    /\ p.start_row = q.start_row

\* the workbook g with the value v in every cell but the start cell of p
OtherCellsHold(g, p, v) ==
    [s \in DOMAIN g |->
        [a \in DOMAIN g[s] |->
            IF s = SheetOf(p.sheet) /\ RowCol(a) = <<p.start_row, Base26(p.start_col)>>
            THEN g[s][a]
            ELSE [g[s][a] EXCEPT !.value = v]]]

\* a literal text: a non-empty string that is no formula
StaticText(v) == v.t = "str" /\ Len(v.s) > 0 /\ v.s[1] # "="

\* C21: two described regions with the same start cell on the same sheet
\* have the same role; the role of a region whose start cell resolves is
\* the one it gets when all the other cells of the workbook hold any
\* other value, formulas included; and a TABLE region whose start cell
\* holds static text is INPUT.
C21_StartCellOnly ==
    \A i \in DOMAIN described :
        LET d == described[i] IN
        /\ \A j \in DOMAIN described :
              SameStart(d.parsed, described[j].parsed) =>
                  d.classification = described[j].classification
        /\ ~Unresolved(d.parsed) =>
              \A v \in CellValues :
                  ProbeRole(OtherCellsHold(grid0, d.parsed, v), d.parsed) = d.classification
        /\ ( /\ d.type = "TABLE"
             /\ ~Unresolved(d.parsed)
             /\ StaticText(CellValueAt(grid0[SheetOf(d.parsed.sheet)], d.parsed.start_row,
                                       Base26(d.parsed.start_col))) )
           => d.classification = "INPUT"

\* the table S1!A1:B2 with static text in its start cell and in its header
\* row and formulas in its whole body, described as INPUT next to the
\* single cell S1!A1
C21_Witness ==
    /\ pc = "done" /\ name_i > 0
    /\ Len(described) = 2
    /\ described[1].type = "SINGLE" /\ described[2].type = "TABLE"
    /\ SameStart(described[1].parsed, described[2].parsed)
    /\ StaticText(grid0["S1"]["A1"].value) /\ StaticText(grid0["S1"]["B1"].value)
    /\ IsFormulaValue(grid0["S1"]["A2"].value) /\ IsFormulaValue(grid0["S1"]["B2"].value)
    /\ described[1].classification = "INPUT"
    /\ described[2].classification = "INPUT"
    /\ classification_counts["INPUT"] = 2

-----------------------------------------------------------------------------
(* Discovery, normalisation and discovery again *)

\* the second discovery has ended
RescanEnded == pc = "done" /\ Len(reports) = 2 /\ reports[1].script = "detect"

\* C22: after the normalizer has run on every cell the discovery reported,
\* the discovery on the written file reports no array-formula cell, every
\* reported cell was converted, and the total of ordinary formula cells is
\* the first total plus the number of converted cells.
C22_DiscoveryAgrees ==
    RescanEnded =>
        /\ array_formulas = <<>>
        /\ reports[2].fixed_count = Len(reports[1].array_formulas)
        /\ total_formulas = reports[1].total_formulas + reports[2].fixed_count
        /\ ArrayCellsOf(grid) = {}

\* a workbook with array formulas on both sheets and a standard formula
\* next to one of them
C22_Witness ==
    /\ RescanEnded
    /\ reports[1].total_formulas = 1
    /\ reports[2].fixed_count = 2
    /\ total_formulas = 3
    /\ IsArrayFormula(grid0["S1"]["A1"].value)
    /\ IsArrayFormula(grid0["S2"]["A2"].value)

-----------------------------------------------------------------------------
(* The scrubber run twice *)

SecondScrub == Len(reports) = 1 /\ reports[1].script = "clean"

\* C23: the second run, on the workbook the first run saved, clears
\* nothing, changes no cell, registers no name and declares none, does not
\* stop on an exception, and ends with the skipped formulas of the first
\* run, a warning for every name the rows yield, and the same workbook
\* saved again.
C23_RescrubIsNoOp ==
    SecondScrub =>
        /\ cleared_cells = <<>>
        /\ grid = reports[1].saved.grid
        /\ named_ranges = <<>>
        /\ defined_names = reports[1].saved.defined_names
        /\ pc # "crashed"
        /\ pc = "done" =>
              /\ skipped_formulas = reports[1].skipped_formulas
              /\ saved = reports[1].saved
              /\ \A r \in 1..ScrubRows :
                    Usable(r) => \E i \in DOMAIN warnings : warnings[i] = NameOfRow(r)

\* a second run has ended after a first run that cleared a literal, kept a
\* formula and registered two names
C23_Witness ==
    /\ SecondScrub
    /\ pc = "done"
    /\ Len(reports[1].cleared_cells) = 1
    /\ Len(reports[1].skipped_formulas) = 1
    /\ Len(reports[1].named_ranges) = 2
    /\ Len(warnings) = 2
    /\ Len(skipped_formulas) = 1

=============================================================================
